---- MODULE Spec2Model ----
(***************************************************************************)
(* A model of ndspacker (src/ndspacker/__main__.py): one run of the        *)
(* program from the import-time tool probe to process exit.                *)
(*                                                                         *)
(* Text is modelled as a sequence of one-character strings, bytes as       *)
(* sequences of integers 0..255, so that parsing, formatting and slicing   *)
(* are computed the way the Python code computes them.  Names of tools,    *)
(* flags and metadata values, which the code only passes along or          *)
(* concatenates, are TLA+ strings.                                         *)
(***************************************************************************)
EXTENDS Integers, Sequences, FiniteSets, TLC

(***************************************************************************)
(* Bounds of the model.                                                    *)
(***************************************************************************)
\* most "0" characters put between "0x" and the digits of an entry address
MaxZeroPad == 2
\* the largest in-range ARM7 blob carried by a modelled ROM body
MaxBody == 3

(***************************************************************************)
(* Python primitives used by the program.                                  *)
(***************************************************************************)
Min(a, b) == IF a < b THEN a ELSE b

\* s[a:b] for a, b >= 0: out-of-range bounds are clamped, never an error
PySlice(s, a, b) ==
    LET lo == Min(a, Len(s))
        hi == Min(b, Len(s))
    IN  IF hi <= lo THEN <<>> ELSE [k \in 1..(hi - lo) |-> s[lo + k]]

\* s[a:]
PySliceFrom(s, a) == PySlice(s, a, Len(s))

from_bytes_big(bs) ==
    LET RECURSIVE Go(_)
        Go(n) == IF n = 0 THEN 0 ELSE 256 * Go(n - 1) + bs[n]
    IN  Go(Len(bs))

\* int.from_bytes(bs, byteorder="little"); the empty sequence gives 0
from_bytes_little(bs) ==
    LET RECURSIVE Go(_)
        Go(i) == IF i > Len(bs) THEN 0 ELSE bs[i] + 256 * Go(i + 1)
    IN  Go(1)

DigitVal ==
    ("0" :> 0) @@ ("1" :> 1) @@ ("2" :> 2) @@ ("3" :> 3) @@ ("4" :> 4) @@
    ("5" :> 5) @@ ("6" :> 6) @@ ("7" :> 7) @@ ("8" :> 8) @@ ("9" :> 9) @@
    ("a" :> 10) @@ ("b" :> 11) @@ ("c" :> 12) @@ ("d" :> 13) @@ ("e" :> 14) @@
    ("f" :> 15) @@ ("A" :> 10) @@ ("B" :> 11) @@ ("C" :> 12) @@ ("D" :> 13) @@
    ("E" :> 14) @@ ("F" :> 15)

DigitChar == <<"0", "1", "2", "3", "4", "5", "6", "7", "8", "9">>

\* int(s, base) for base 10 or 16 on text without sign, blanks or "_":
\* base 16 accepts an optional "0x" prefix, base 10 does not; an empty digit
\* string or a character that is no digit of the base raises ValueError.
PyInt(s, base) ==
    LET body == IF base = 16 /\ Len(s) >= 2 /\ s[1] = "0" /\ s[2] \in {"x", "X"}
                THEN PySliceFrom(s, 2) ELSE s
        good == /\ body # <<>>
                /\ \A i \in 1..Len(body) :
                       body[i] \in DOMAIN DigitVal /\ DigitVal[body[i]] < base
        RECURSIVE Go(_)
        Go(n) == IF n = 0 THEN 0 ELSE base * Go(n - 1) + DigitVal[body[n]]
    IN  IF good THEN [ok |-> TRUE, val |-> Go(Len(body))]
        ELSE [ok |-> FALSE, val |-> 0]

\* str(n) for n >= 0
RECURSIVE PyStr(_)
PyStr(n) == IF n < 10 THEN <<DigitChar[n + 1]>>
            ELSE PyStr(n \div 10) \o <<DigitChar[(n % 10) + 1]>>

UpperToLower ==
    [A |-> "a", B |-> "b", C |-> "c", D |-> "d", E |-> "e", F |-> "f", G |-> "g",
     H |-> "h", I |-> "i", J |-> "j", K |-> "k", L |-> "l", M |-> "m", N |-> "n",
     O |-> "o", P |-> "p", Q |-> "q", R |-> "r", S |-> "s", T |-> "t", U |-> "u",
     V |-> "v", W |-> "w", X |-> "x", Y |-> "y", Z |-> "z"]

\* str.lower()
PyLower(s) ==
    [i \in 1..Len(s) |-> IF s[i] \in DOMAIN UpperToLower THEN UpperToLower[s[i]] ELSE s[i]]

\* str.strip(): blanks removed at both ends
PyStrip(s) ==
    LET keep == {i \in 1..Len(s) : s[i] # " "}
        RECURSIVE Lo(_)
        Lo(i) == IF i \in keep THEN i ELSE Lo(i + 1)
        RECURSIVE Hi(_)
        Hi(i) == IF i \in keep THEN i ELSE Hi(i - 1)
    IN  IF keep = {} THEN <<>> ELSE PySlice(s, Lo(1) - 1, Hi(Len(s)))

\* str.replace(" ", "_")
PyReplaceBlank(s) == [i \in 1..Len(s) |-> IF s[i] = " " THEN "_" ELSE s[i]]

\* line.split(":", 1): a pair cut at the first colon, or the whole line alone
PySplitColon(line) ==
    LET colons == {i \in 1..Len(line) : line[i] = ":"}
        RECURSIVE First(_)
        First(i) == IF i \in colons THEN i ELSE First(i + 1)
    IN  IF colons = {} THEN <<line>>
        ELSE <<PySlice(line, 0, First(1) - 1), PySliceFrom(line, First(1))>>

\* Path.suffix of a path without directory part: the text from the last
\* dot on, empty when there is no dot past the first character or the name
\* ends with the dot
PathSuffix(name) ==
    LET dots == {i \in 2..Len(name) : name[i] = "."}
        RECURSIVE Last(_)
        Last(i) == IF i \in dots THEN i ELSE Last(i - 1)
    IN  IF dots = {} \/ Last(Len(name)) = Len(name) THEN <<>>
        ELSE PySliceFrom(name, Last(Len(name)) - 1)

(***************************************************************************)
(* Constants of the program.                                               *)
(***************************************************************************)
DEFAULT_PACKER_SETTINGS ==
    [maker_code |-> "01", game_code |-> "ENAE", game_title |-> "NDSPACKER"]

\* offsets of the three ROM header fields read_arm7_from_rom reads
EntrypointAt == 52
RomOffsetAt == 48
RomSizeAt == 60
\* ARM7 image used when no ARM7 path is given: 0x2380000, b"\xfe\xff\xff\xea"
DefaultArm7Entry == 37224448
DefaultArm7Data == <<254, 255, 255, 234>>

\* a local variable not yet bound is <<>>, one bound to v is <<v>>;
\* the same form stands for Optional values (None is <<>>)
Unbound == <<>>
Bound(v) == <<v>>

(***************************************************************************)
(* Pure functions of the program.                                          *)
(***************************************************************************)
\* get_tool_prefix(), given the set of program names shutil.which() finds;
\* Unbound stands for raising FileNotFoundError
get_tool_prefix(found) ==
    IF "arm-none-eabi-readelf" \in found THEN Bound("arm-none-eabi-")
    ELSE IF "llvm-readelf" \in found THEN Bound("llvm-")
    ELSE Unbound

\* variant of run_with_echo: subprocess.run without check=True
run_with_echo_unchecked(command, status, out) == [raised |-> FALSE, stdout |-> out]

\* run_with_echo(command) when the tool exits with `status` having written
\* `out`: subprocess.run(check=True) raises CalledProcessError on non-zero
run_with_echo(command, status, out) ==
    IF status # 0 THEN [raised |-> TRUE, stdout |-> <<>>]
    ELSE [raised |-> FALSE, stdout |-> out]

\* the parsing part of get_elf_headers: stdout is the sequence of lines
\* splitlines() gives.  A line without colon fails to unpack (ValueError).
parse_elf_headers(stdout) ==
    LET lines == PySliceFrom(stdout, 1)
        key(i) == PyReplaceBlank(PyStrip(PyLower(PySplitColon(lines[i])[1])))
        value(i) == PyStrip(PySplitColon(lines[i])[2])
        RECURSIVE LastWith(_, _)
        LastWith(k, i) == IF key(i) = k THEN i ELSE LastWith(k, i - 1)
    IN  IF \E i \in 1..Len(lines) : Len(PySplitColon(lines[i])) < 2
        THEN [ok |-> FALSE, headers |-> <<>>]
        ELSE [ok |-> TRUE,
              headers |-> [k \in {key(i) : i \in 1..Len(lines)} |->
                               value(LastWith(k, Len(lines)))]]

\* variants of read_arm7_from_rom: fields decoded big-endian; the slice
\* ended at rom_size instead of rom_offset + rom_size
read_arm7_from_rom_big_endian(raw_rom) ==
    LET entrypoint == from_bytes_big(PySlice(raw_rom, EntrypointAt, EntrypointAt + 4))
        rom_offset == from_bytes_big(PySlice(raw_rom, RomOffsetAt, RomOffsetAt + 4))
        rom_size == from_bytes_big(PySlice(raw_rom, RomSizeAt, RomSizeAt + 4))
    IN  <<entrypoint, PySlice(raw_rom, rom_offset, rom_offset + rom_size)>>

read_arm7_from_rom_end_is_size(raw_rom) ==
    LET entrypoint == from_bytes_little(PySlice(raw_rom, EntrypointAt, EntrypointAt + 4))
        rom_offset == from_bytes_little(PySlice(raw_rom, RomOffsetAt, RomOffsetAt + 4))
        rom_size == from_bytes_little(PySlice(raw_rom, RomSizeAt, RomSizeAt + 4))
    IN  <<entrypoint, PySlice(raw_rom, rom_offset, rom_size)>>

read_arm7_from_rom(raw_rom) ==
    LET entrypoint == from_bytes_little(PySlice(raw_rom, EntrypointAt, EntrypointAt + 4))
        rom_offset == from_bytes_little(PySlice(raw_rom, RomOffsetAt, RomOffsetAt + 4))
        rom_size == from_bytes_little(PySlice(raw_rom, RomSizeAt, RomSizeAt + 4))
    IN  <<entrypoint, PySlice(raw_rom, rom_offset, rom_offset + rom_size)>>

\* the argument list main() hands to ndstool
ndstool_command(saved_arm9, saved_arm7, ep9, ep7, game, maker, title) ==
    <<"ndstool", "-c", "./rom.nds", "-9", saved_arm9, "-7", saved_arm7,
      "-e9", PyStr(ep9), "-r9", "0x2000000", "-e7", PyStr(ep7),
      "-g", game, maker, title, "1">>

\* dict.get(key, default)
DictGet(d, key, default) == IF key \in DOMAIN d THEN d[key] ELSE default

\* variant of tempdir_exit: the directory is removed on normal exit only
tempdir_exit_leaks_on_error(live, d, e) == IF e # "" THEN live ELSE live \ {d}

\* TemporaryDirectory.__exit__ with exception `e` ("" for none) passing
\* through: the directory and all it holds are removed either way
tempdir_exit(live, d, e) == live \ {d}
tempdir_files_exit(fs, d, e) == [p \in {q \in DOMAIN fs : q.dir # d} |-> fs[p]]

(***************************************************************************)
(* Text constants.                                                         *)
(***************************************************************************)
S_machine == <<"m", "a", "c", "h", "i", "n", "e">>
S_entry_point_address ==
    <<"e", "n", "t", "r", "y", "_", "p", "o", "i", "n", "t", "_",
      "a", "d", "d", "r", "e", "s", "s">>
S_ARM == <<"A", "R", "M">>
S_nds == <<".", "n", "d", "s">>

\* get_elf_headers(elf_path) when the tool behaves as `t` (exit status and
\* output lines): the command run, the exception raised ("" for none) and the
\* headers returned
get_elf_headers(prefix, elf_path, t) ==
    LET command == <<prefix \o "readelf", "-h", elf_path>>
        result == run_with_echo(command, t.status, t.out)
        parsed == parse_elf_headers(result.stdout)
    IN  IF result.raised
        THEN [command |-> command, exc |-> "CalledProcessError", headers |-> <<>>]
        ELSE IF ~parsed.ok
        THEN [command |-> command, exc |-> "ValueError", headers |-> <<>>]
        ELSE [command |-> command, exc |-> "", headers |-> parsed.headers]

\* variant of arm9_entry: the base argument left out
arm9_entry_base_10(headers) == PyInt(PySliceFrom(headers[S_entry_point_address], 2), 10)

\* int(arm9_headers["entry_point_address"][2:], 16)
arm9_entry(headers) == PyInt(PySliceFrom(headers[S_entry_point_address], 2), 16)

\* int(get_elf_headers(arm7_image)["entry_point_address"])
arm7_entry(headers) == PyInt(headers[S_entry_point_address], 10)

(***************************************************************************)
(* The environment: what the command line, the file system and the         *)
(* external tools may present to a run.                                    *)
(***************************************************************************)
P_arm9_elf == <<"a", "9", ".", "e", "l", "f">>
P_arm7_elf == <<"a", "7", ".", "e", "l", "f">>
P_arm7_nds == <<"a", "7", ".", "n", "d", "s">>

ArgvSet ==
    {<<"ndspacker">>, <<"ndspacker", P_arm9_elf>>,
     <<"ndspacker", P_arm9_elf, P_arm7_elf>>, <<"ndspacker", P_arm9_elf, P_arm7_nds>>}

PathNames(av) == {av[i] : i \in 2..Len(av)}

WhichSet == {{}, {"llvm-readelf"}, {"arm-none-eabi-readelf", "llvm-readelf"}}

\* ndspacker.toml: missing, not parseable, or a table with some of the keys
FileSettings == [maker_code |-> "7X", game_code |-> "QQQQ", game_title |-> "MYGAME"]
ConfigSet ==
    {[kind |-> "missing", table |-> <<>>], [kind |-> "malformed", table |-> <<>>]} \cup
    {[kind |-> "table", table |-> [k \in ks |-> FileSettings[k]]] :
        ks \in SUBSET (DOMAIN FileSettings)}

\* readelf -h output, as lines
L_ELF_Header == <<"E", "L", "F", " ", "H", "e", "a", "d", "e", "r", ":">>
K_Class == <<"C", "l", "a", "s", "s">>
K_Machine == <<"M", "a", "c", "h", "i", "n", "e">>
K_Entry ==
    <<"E", "n", "t", "r", "y", " ", "p", "o", "i", "n", "t", " ",
      "a", "d", "d", "r", "e", "s", "s">>
V_ELF32 == <<"E", "L", "F", "3", "2">>
V_AArch64 == <<"A", "A", "r", "c", "h", "6", "4">>

HeaderLine(k, v) == <<" ", " ">> \o k \o <<":", " ", " ", " ">> \o v

Zeros(n) == [i \in 1..n |-> "0"]
HexBodies == {<<"2", "0", "0", "0", "0", "0", "0">>, <<"1", "f", "F">>}
EntryValues ==
    {<<"0", "x">> \o Zeros(n) \o b : n \in 0..MaxZeroPad, b \in HexBodies}
    \cup {<<"1", "2", "3", "4", "5">>, <<"0", "x">>}

MachineLines == {<<>>} \cup {<<HeaderLine(K_Machine, m)>> : m \in {S_ARM, V_AArch64}}
EntryLines == {<<>>} \cup {<<HeaderLine(K_Entry, e)>> : e \in EntryValues}
ReadelfOutputs ==
    {<<L_ELF_Header, HeaderLine(K_Class, V_ELF32)>> \o m \o e :
        m \in MachineLines, e \in EntryLines}
    \cup {<<L_ELF_Header, <<" ">>>>}
ReadelfBehaviours ==
    {[status |-> 0, out |-> o] : o \in ReadelfOutputs} \cup {[status |-> 1, out |-> <<>>]}

\* objcopy -O binary output
ObjcopyOutputs == {<<>>, <<1, 2, 3, 4, 5>>}
ObjcopyBehaviours ==
    {[status |-> 0, out |-> o] : o \in ObjcopyOutputs} \cup {[status |-> 1, out |-> <<>>]}

\* ROM files: `len` bytes holding the three header fields (as far as the
\* file reaches) in little-endian order and a position-dependent filler
ByteOf(v, k) == (v \div (256 ^ k)) % 256
MkRom(len, off, ep, size) ==
    [i \in 1..len |->
        LET p == i - 1
        IN  IF p \in RomOffsetAt..(RomOffsetAt + 3) THEN ByteOf(off, p - RomOffsetAt)
            ELSE IF p \in EntrypointAt..(EntrypointAt + 3) THEN ByteOf(ep, p - EntrypointAt)
            ELSE IF p \in RomSizeAt..(RomSizeAt + 3) THEN ByteOf(size, p - RomSizeAt)
            ELSE (7 * p + 1) % 256]
RomLens == {0, 50, 54, 62, 64, 64 + MaxBody, 270}
RomOffsets == {0, 62, 64, 64 + MaxBody, 260, 16777280}
RomSizes == {0, 2, MaxBody, 258}
RomEntries == {37224448, 58687488}
\* a 0x10000-byte ROM with offset 0x4000, size 0x100, entrypoint 0x02380000
ExampleRom == MkRom(65536, 16384, 37224448, 256)
RomFiles ==
    {MkRom(len, off, ep, size) :
        len \in RomLens, off \in RomOffsets, ep \in RomEntries, size \in RomSizes}
    \cup {ExampleRom}

(***************************************************************************)
(* State.                                                                  *)
(***************************************************************************)
VARIABLES
    on_path,          \* environment: program names found on PATH
    argv,             \* sys.argv
    existing,         \* environment: the paths that exist
    cfg_file,         \* environment: ndspacker.toml in the working directory
    pc,               \* position of the run
    TOOL_PREFIX, arm9_image, arm7_image, packer_settings,
    arm9_headers, arm9_ep, arm9_data, raw_data, arm7_ep, arm7_data,
    maker_code, game_code, game_title,
    elf_frame,        \* read_from_elf's frame: caller, elf_path, tdir
    directory,        \* main's temporary directory
    exc,              \* exception passing through a with-block, "" for none
    tmpdirs,          \* temporary directories that exist
    files,            \* contents of the files in temporary directories
    ntmp,             \* temporary directories made so far
    calls,            \* external tool invocations so far: command, exit status, output
    error,            \* what ended the run: "" or the exception's type
    exit_code         \* process exit status, Unbound while running

env == <<on_path, argv, existing, cfg_file>>
locals9 == <<arm9_headers, arm9_ep, arm9_data>>
locals7 == <<raw_data, arm7_ep, arm7_data>>
meta == <<maker_code, game_code, game_title>>
temps == <<tmpdirs, files, ntmp>>
with == <<elf_frame, directory, exc>>
vars == <<env, pc, TOOL_PREFIX, arm9_image, arm7_image, packer_settings, locals9,
          locals7, meta, with, temps, calls, error, exit_code>>

Init ==
    /\ on_path \in WhichSet
    /\ argv \in ArgvSet
    /\ existing \in SUBSET PathNames(argv)
    /\ cfg_file \in ConfigSet
    /\ pc = "import"
    /\ TOOL_PREFIX = Unbound
    /\ arm9_image = Unbound /\ arm7_image = Unbound
    /\ packer_settings = Unbound
    /\ arm9_headers = Unbound /\ arm9_ep = Unbound /\ arm9_data = Unbound
    /\ raw_data = Unbound /\ arm7_ep = Unbound /\ arm7_data = Unbound
    /\ maker_code = Unbound /\ game_code = Unbound /\ game_title = Unbound
    /\ elf_frame = Unbound /\ directory = Unbound /\ exc = ""
    /\ tmpdirs = {} /\ files = <<>> /\ ntmp = 0
    /\ calls = <<>>
    /\ error = "" /\ exit_code = Unbound

\* the process ends: sys.exit(code), an uncaught exception (status 1), or
\* main() returning (status 0)
Exit(e, code) == pc' = "exited" /\ error' = e /\ exit_code' = Bound(code)
Goto(l) == pc' = l /\ UNCHANGED <<error, exit_code>>

(***************************************************************************)
(* The run, step by step.                                                  *)
(***************************************************************************)
\* TOOL_PREFIX = get_tool_prefix(), at import
ImportModule ==
    /\ pc = "import"
    /\ TOOL_PREFIX' = get_tool_prefix(on_path)
    /\ IF TOOL_PREFIX' = Unbound THEN Exit("FileNotFoundError", 1) ELSE Goto("args")
    /\ UNCHANGED <<env, arm9_image, arm7_image, packer_settings, locals9, locals7,
                   meta, with, temps, calls>>

ParseArgs ==
    /\ pc = "args"
    /\ IF Len(argv) < 2
       THEN /\ Exit("SystemExit", 1)
            /\ UNCHANGED <<arm9_image, arm7_image>>
       ELSE /\ arm9_image' = Bound(argv[2])
            /\ arm7_image' = IF Len(argv) < 3 THEN Unbound ELSE Bound(argv[3])
            /\ Goto("check9")
    /\ UNCHANGED <<env, TOOL_PREFIX, packer_settings, locals9, locals7, meta, with,
                   temps, calls>>

CheckArm9Exists ==
    /\ pc = "check9"
    /\ IF arm9_image[1] \notin existing THEN Exit("SystemExit", 1) ELSE Goto("check7")
    /\ UNCHANGED <<env, TOOL_PREFIX, arm9_image, arm7_image, packer_settings, locals9,
                   locals7, meta, with, temps, calls>>

\* variant of CheckArm7Exists: the existence test left out
CheckArm7Exists_unchecked ==
    /\ pc = "check7"
    /\ Goto("settings")
    /\ UNCHANGED <<env, TOOL_PREFIX, arm9_image, arm7_image, packer_settings, locals9,
                   locals7, meta, with, temps, calls>>

CheckArm7Exists ==
    /\ pc = "check7"
    /\ IF arm7_image # Unbound /\ arm7_image[1] \notin existing
       THEN Exit("SystemExit", 1) ELSE Goto("settings")
    /\ UNCHANGED <<env, TOOL_PREFIX, arm9_image, arm7_image, packer_settings, locals9,
                   locals7, meta, with, temps, calls>>

LoadSettings ==
    /\ pc = "settings"
    /\ IF cfg_file.kind = "malformed"
       THEN /\ Exit("TOMLDecodeError", 1)
            /\ UNCHANGED packer_settings
       ELSE /\ packer_settings' = IF cfg_file.kind = "missing"
                                  THEN Bound(DEFAULT_PACKER_SETTINGS)
                                  ELSE Bound(cfg_file.table)
            /\ Goto("headers9")
    /\ UNCHANGED <<env, TOOL_PREFIX, arm9_image, arm7_image, locals9, locals7, meta,
                   with, temps, calls>>

ReadArm9Headers ==
    /\ pc = "headers9"
    /\ \E t \in ReadelfBehaviours :
          LET r == get_elf_headers(TOOL_PREFIX[1], arm9_image[1], t)
          IN  /\ calls' = Append(calls, [cmd |-> r.command, status |-> t.status, out |-> t.out])
              /\ IF r.exc # ""
                 THEN Exit(r.exc, 1) /\ UNCHANGED arm9_headers
                 ELSE arm9_headers' = Bound(r.headers) /\ Goto("machine")
    /\ UNCHANGED <<env, TOOL_PREFIX, arm9_image, arm7_image, packer_settings, arm9_ep,
                   arm9_data, locals7, meta, with, temps>>

\* variant of CheckMachine: the message is printed but the run goes on
CheckMachine_no_exit ==
    /\ pc = "machine"
    /\ IF S_machine \notin DOMAIN arm9_headers[1] THEN Exit("KeyError", 1)
       ELSE Goto("entry9")
    /\ UNCHANGED <<env, TOOL_PREFIX, arm9_image, arm7_image, packer_settings, locals9,
                   locals7, meta, with, temps, calls>>

CheckMachine ==
    /\ pc = "machine"
    /\ IF S_machine \notin DOMAIN arm9_headers[1] THEN Exit("KeyError", 1)
       ELSE IF arm9_headers[1][S_machine] # S_ARM THEN Exit("SystemExit", 1)
       ELSE Goto("entry9")
    /\ UNCHANGED <<env, TOOL_PREFIX, arm9_image, arm7_image, packer_settings, locals9,
                   locals7, meta, with, temps, calls>>

ParseArm9Entry ==
    /\ pc = "entry9"
    /\ IF S_entry_point_address \notin DOMAIN arm9_headers[1]
       THEN Exit("KeyError", 1) /\ UNCHANGED <<arm9_ep, elf_frame>>
       ELSE IF ~arm9_entry(arm9_headers[1]).ok
       THEN Exit("ValueError", 1) /\ UNCHANGED <<arm9_ep, elf_frame>>
       ELSE /\ arm9_ep' = Bound(arm9_entry(arm9_headers[1]).val)
            /\ elf_frame' = Bound([caller |-> "arm9", elf_path |-> arm9_image[1], tdir |-> 0])
            /\ Goto("elf_enter")
    /\ UNCHANGED <<env, TOOL_PREFIX, arm9_image, arm7_image, packer_settings,
                   arm9_headers, arm9_data, locals7, meta, directory, exc, temps, calls>>

\* read_from_elf, line 85: the temporary directory is made
ReadFromElfEnter ==
    /\ pc = "elf_enter"
    /\ ntmp' = ntmp + 1
    /\ tmpdirs' = tmpdirs \cup {ntmp'}
    /\ elf_frame' = Bound([elf_frame[1] EXCEPT !.tdir = ntmp'])
    /\ Goto("elf_run")
    /\ UNCHANGED <<env, TOOL_PREFIX, arm9_image, arm7_image, packer_settings, locals9,
                   locals7, meta, directory, exc, files, calls>>

\* read_from_elf, lines 86-88: objcopy runs and its output file is read.
\* objcopy writes out.o when it exits with status 0; the bytes read are held
\* in `files` until the with-block is left.
ReadFromElfRun ==
    /\ pc = "elf_run"
    /\ \E t \in ObjcopyBehaviours :
          LET output_path == [dir |-> elf_frame[1].tdir, name |-> "out.o"]
              command == <<TOOL_PREFIX[1] \o "objcopy", "-O", "binary",
                           elf_frame[1].elf_path, output_path>>
              result == run_with_echo(command, t.status, <<>>)
          IN  /\ calls' = Append(calls, [cmd |-> command, status |-> t.status, out |-> t.out])
              /\ files' = IF t.status = 0 THEN (output_path :> t.out) @@ files ELSE files
              /\ exc' = IF result.raised THEN "CalledProcessError"
                        ELSE IF output_path \notin DOMAIN files' THEN "FileNotFoundError"
                        ELSE ""
    /\ Goto("elf_exit")
    /\ UNCHANGED <<env, TOOL_PREFIX, arm9_image, arm7_image, packer_settings, locals9,
                   locals7, meta, elf_frame, directory, tmpdirs, ntmp>>

\* read_from_elf: the with-block is left, by return or by exception
ReadFromElfExit ==
    /\ pc = "elf_exit"
    /\ LET f == elf_frame[1]
           data == files[[dir |-> f.tdir, name |-> "out.o"]]
       IN  /\ tmpdirs' = tempdir_exit(tmpdirs, f.tdir, exc)
           /\ files' = tempdir_files_exit(files, f.tdir, exc)
           /\ IF exc # ""
              THEN Exit(exc, 1) /\ UNCHANGED <<arm9_data, arm7_data>>
              ELSE IF f.caller = "arm9"
              THEN arm9_data' = Bound(data) /\ UNCHANGED arm7_data /\ Goto("arm7")
              ELSE arm7_data' = Bound(data) /\ UNCHANGED arm9_data /\ Goto("metadata")
    /\ exc' = ""
    /\ elf_frame' = Unbound
    /\ UNCHANGED <<env, TOOL_PREFIX, arm9_image, arm7_image, packer_settings,
                   arm9_headers, arm9_ep, raw_data, arm7_ep, meta, directory, ntmp, calls>>

\* lines 139-143: the ARM7 image is lifted from a ROM file
Arm7FromRom ==
    /\ pc = "arm7"
    /\ arm7_image # Unbound /\ PathSuffix(arm7_image[1]) = S_nds
    /\ \E rom \in RomFiles :
          /\ raw_data' = Bound(rom)
          /\ arm7_ep' = Bound(read_arm7_from_rom(rom)[1])
          /\ arm7_data' = Bound(read_arm7_from_rom(rom)[2])
    /\ Goto("metadata")
    /\ UNCHANGED <<env, TOOL_PREFIX, arm9_image, arm7_image, packer_settings, locals9,
                   meta, with, temps, calls>>

\* line 150 (and the call of line 151): the ARM7 image is an ELF file
Arm7FromElf ==
    /\ pc = "arm7"
    /\ arm7_image # Unbound /\ PathSuffix(arm7_image[1]) # S_nds
    /\ \E t \in ReadelfBehaviours :
          LET r == get_elf_headers(TOOL_PREFIX[1], arm7_image[1], t)
          IN  /\ calls' = Append(calls, [cmd |-> r.command, status |-> t.status, out |-> t.out])
              /\ IF r.exc # ""
                 THEN Exit(r.exc, 1) /\ UNCHANGED <<arm7_ep, elf_frame>>
                 ELSE IF S_entry_point_address \notin DOMAIN r.headers
                 THEN Exit("KeyError", 1) /\ UNCHANGED <<arm7_ep, elf_frame>>
                 ELSE IF ~arm7_entry(r.headers).ok
                 THEN Exit("ValueError", 1) /\ UNCHANGED <<arm7_ep, elf_frame>>
                 ELSE /\ arm7_ep' = Bound(arm7_entry(r.headers).val)
                      /\ elf_frame' = Bound([caller |-> "arm7",
                                             elf_path |-> arm7_image[1], tdir |-> 0])
                      /\ Goto("elf_enter")
    /\ UNCHANGED <<env, TOOL_PREFIX, arm9_image, arm7_image, packer_settings, locals9,
                   raw_data, arm7_data, meta, directory, exc, temps>>

\* variant of default_arm7: the ARM9 load address as entrypoint
default_arm7_wrong_entry == <<33554432, DefaultArm7Data>>

\* the values of lines 153-155
default_arm7 == <<DefaultArm7Entry, DefaultArm7Data>>

\* lines 152-155: no ARM7 image was named
Arm7Default ==
    /\ pc = "arm7"
    /\ arm7_image = Unbound
    /\ arm7_ep' = Bound(default_arm7[1])
    /\ arm7_data' = Bound(default_arm7[2])
    /\ Goto("metadata")
    /\ UNCHANGED <<env, TOOL_PREFIX, arm9_image, arm7_image, packer_settings, locals9,
                   raw_data, meta, with, temps, calls>>

\* lines 160-162
resolve_metadata(settings) ==
    [maker_code |-> DictGet(settings, "maker_code", "01"),
     game_code |-> DictGet(settings, "game_code", "ABCD"),
     game_title |-> DictGet(settings, "game_title", "NITRO-SDK")]

ResolveMetadata ==
    /\ pc = "metadata"
    /\ maker_code' = Bound(resolve_metadata(packer_settings[1]).maker_code)
    /\ game_code' = Bound(resolve_metadata(packer_settings[1]).game_code)
    /\ game_title' = Bound(resolve_metadata(packer_settings[1]).game_title)
    /\ Goto("pack_enter")
    /\ UNCHANGED <<env, TOOL_PREFIX, arm9_image, arm7_image, packer_settings, locals9,
                   locals7, with, temps, calls>>

saved_arm9 == [dir |-> directory[1], name |-> "arm9.tmp.bin"]
saved_arm7 == [dir |-> directory[1], name |-> "arm7.tmp.bin"]

\* lines 164-168: the temporary directory is made and both images written
PackEnter ==
    /\ pc = "pack_enter"
    /\ ntmp' = ntmp + 1
    /\ directory' = Bound(ntmp')
    /\ tmpdirs' = tmpdirs \cup {ntmp'}
    /\ files' = ([dir |-> ntmp', name |-> "arm9.tmp.bin"] :> arm9_data[1]) @@
                ([dir |-> ntmp', name |-> "arm7.tmp.bin"] :> arm7_data[1]) @@ files
    /\ Goto("pack_run")
    /\ UNCHANGED <<env, TOOL_PREFIX, arm9_image, arm7_image, packer_settings, locals9,
                   locals7, meta, elf_frame, exc, calls>>

\* lines 171-181: ndstool runs
PackRun ==
    /\ pc = "pack_run"
    /\ \E status \in {0, 1} :
          LET command == ndstool_command(saved_arm9, saved_arm7, arm9_ep[1], arm7_ep[1],
                                         game_code[1], maker_code[1], game_title[1])
              result == run_with_echo(command, status, <<>>)
          IN  /\ calls' = Append(calls, [cmd |-> command, status |-> status, out |-> <<>>])
              /\ exc' = IF result.raised THEN "CalledProcessError" ELSE ""
    /\ Goto("pack_exit")
    /\ UNCHANGED <<env, TOOL_PREFIX, arm9_image, arm7_image, packer_settings, locals9,
                   locals7, meta, elf_frame, directory, temps>>

\* main's with-block is left, by falling off its end or by exception
PackExit ==
    /\ pc = "pack_exit"
    /\ tmpdirs' = tempdir_exit(tmpdirs, directory[1], exc)
    /\ files' = tempdir_files_exit(files, directory[1], exc)
    /\ IF exc # "" THEN Exit(exc, 1) ELSE Exit("", 0)
    /\ exc' = ""
    /\ UNCHANGED <<env, TOOL_PREFIX, arm9_image, arm7_image, packer_settings, locals9,
                   locals7, meta, elf_frame, directory, ntmp, calls>>

Next ==
    \/ ImportModule \/ ParseArgs \/ CheckArm9Exists \/ CheckArm7Exists \/ LoadSettings
    \/ ReadArm9Headers \/ CheckMachine \/ ParseArm9Entry
    \/ ReadFromElfEnter \/ ReadFromElfRun \/ ReadFromElfExit
    \/ Arm7FromRom \/ Arm7FromElf \/ Arm7Default
    \/ ResolveMetadata \/ PackEnter \/ PackRun \/ PackExit

Spec == Init /\ [][Next]_vars

(***************************************************************************)
(* Vocabulary of the properties.                                           *)
(***************************************************************************)
Last(q) == q[Len(q)]
IsReadelf(c) == c.cmd[1] \in {"arm-none-eabi-readelf", "llvm-readelf"}
IsObjcopy(c) == c.cmd[1] \in {"arm-none-eabi-objcopy", "llvm-objcopy"}
IsNdstool(c) == c.cmd[1] = "ndstool"
\* the file an inspector or extractor invocation is about
TargetOf(c) == IF IsReadelf(c) THEN c.cmd[3] ELSE c.cmd[4]
NdstoolCalls == {i \in 1..Len(calls) : IsNdstool(calls[i])}

\* the little-endian u32 at byte positions p..p+3 (0-based) of a byte
\* sequence, positions past its end counting as absent
U32At(raw, p) ==
    LET B(k) == IF p + k < Len(raw) THEN raw[p + k + 1] ELSE 0
    IN  B(0) + 256 * B(1) + 65536 * B(2) + 16777216 * B(3)
\* the bytes of raw at positions lo..hi-1 (0-based)
Bytes(raw, lo, hi) == [k \in 1..(hi - lo) |-> raw[lo + k]]

\* the number a string of hexadecimal (decimal) digits denotes
HexValue(ds) ==
    LET RECURSIVE Sum(_)
        Sum(i) == IF i > Len(ds) THEN 0
                  ELSE IF DigitVal[ds[i]] = 0 THEN Sum(i + 1)
                  ELSE DigitVal[ds[i]] * 16 ^ (Len(ds) - i) + Sum(i + 1)
    IN  Sum(1)
DecValue(ds) ==
    LET RECURSIVE Sum(_)
        Sum(i) == IF i > Len(ds) THEN 0
                  ELSE IF DigitVal[ds[i]] = 0 THEN Sum(i + 1)
                  ELSE DigitVal[ds[i]] * 10 ^ (Len(ds) - i) + Sum(i + 1)
    IN  Sum(1)
RECURSIVE WithoutLeadingZeros(_)
WithoutLeadingZeros(ds) ==
    IF ds # <<>> /\ ds[1] = "0" THEN WithoutLeadingZeros(Tail(ds)) ELSE ds
\* text of the form "0x" followed by at least one hexadecimal digit
IsHexLiteral(v) ==
    /\ Len(v) >= 3 /\ v[1] = "0" /\ v[2] = "x"
    /\ \A i \in 3..Len(v) : v[i] \in DOMAIN DigitVal
HexDigitsOf(v) == [i \in 1..(Len(v) - 2) |-> v[i + 2]]

\* the ARM9 header dump was parsed, names machine "ARM" and a well-formed entry
Arm9Valid ==
    /\ arm9_headers # Unbound
    /\ S_machine \in DOMAIN arm9_headers[1]
    /\ arm9_headers[1][S_machine] = S_ARM
    /\ S_entry_point_address \in DOMAIN arm9_headers[1]
    /\ IsHexLiteral(arm9_headers[1][S_entry_point_address])

(***************************************************************************)
(* Properties.                                                             *)
(***************************************************************************)
\* C1: for a ROM of at least 0x40 bytes whose header fields satisfy
\* rom_offset + rom_size <= len(raw_rom), read_arm7_from_rom returns the
\* little-endian u32 at 0x34 as entrypoint and exactly the rom_size bytes
\* raw_rom[rom_offset : rom_offset + rom_size], with rom_offset the u32 at 0x30
\* and rom_size the u32 at 0x3C.
C1_RomReadInRange ==
    raw_data # Unbound =>
        LET raw == raw_data[1]
            off == U32At(raw, 48)
            size == U32At(raw, 60)
        IN  (Len(raw) >= 64 /\ off + size <= Len(raw)) =>
                /\ arm7_ep = Bound(U32At(raw, 52))
                /\ arm7_data = Bound(Bytes(raw, off, off + size))
                /\ Len(arm7_data[1]) = size

\* the example of the claim: the 0x10000-byte ROM was read
C1_Witness ==
    /\ raw_data = Bound(ExampleRom)
    /\ arm7_ep = Bound(37224448)
    /\ Len(arm7_data[1]) = 256

\* C2: when the ARM9 header dump reports a machine type other than "ARM" the
\* run ends with exit code 1, and the inspector's invocation on the ARM9 file
\* is the only external tool invocation of the run.
C2_WrongMachineExits ==
    (/\ arm9_headers # Unbound
     /\ S_machine \in DOMAIN arm9_headers[1]
     /\ arm9_headers[1][S_machine] # S_ARM) =>
        /\ pc \in {"machine", "exited"}
        /\ pc = "exited" => exit_code = Bound(1)
        /\ Len(calls) = 1
        /\ IsReadelf(calls[1]) /\ TargetOf(calls[1]) = arm9_image[1]

C2_Witness ==
    /\ pc = "exited"
    /\ arm9_headers # Unbound
    /\ S_machine \in DOMAIN arm9_headers[1]
    /\ arm9_headers[1][S_machine] = V_AArch64

\* C3: once the run has ended, however it ended, no temporary directory and
\* no temporary file exists.
C3_NoTempLeftBehind ==
    pc = "exited" => tmpdirs = {} /\ DOMAIN files = {}

\* ndstool exited non-zero while main's temporary directory was live, after
\* read_from_elf had used one too, and the run has ended
C3_Witness ==
    /\ pc = "exited"
    /\ error = "CalledProcessError"
    /\ ntmp >= 2
    /\ IsNdstool(Last(calls)) /\ Last(calls).status # 0

\* C4: when no ARM7 path is given, the packer gets -e7 0x02380000 (written in
\* decimal, 37224448) and a -7 file holding exactly FE FF FF EA, and the
\* inspector and the extractor are invoked for the ARM9 file alone.
C4_DefaultArm7 ==
    Len(argv) < 3 =>
        /\ \A i \in 1..Len(calls) :
              IF IsNdstool(calls[i])
              THEN /\ calls[i].cmd[12] = "-e7"
                   /\ calls[i].cmd[13] = <<"3", "7", "2", "2", "4", "4", "4", "8">>
                   /\ calls[i].cmd[6] = "-7"
              ELSE TargetOf(calls[i]) = argv[2]
        /\ Cardinality({i \in 1..Len(calls) : ~IsNdstool(calls[i])}) <= 2
        /\ pc = "pack_exit" => files[Last(calls).cmd[7]] = <<254, 255, 255, 234>>

C4_Witness ==
    /\ Len(argv) < 3
    /\ pc = "pack_exit"
    /\ IsNdstool(Last(calls))

\* C5: without a config file the packer gets the maker code, game code and
\* game title of the built-in default table; with a config file it gets the
\* file's value for each key the file defines and, for each key the file does
\* not define, the value it would have got without a config file.
C5_MetadataResolution ==
    \A i \in NdstoolCalls :
        LET expected(k) ==
                IF cfg_file.kind = "table" /\ k \in DOMAIN cfg_file.table
                THEN cfg_file.table[k] ELSE DEFAULT_PACKER_SETTINGS[k]
        IN  /\ calls[i].cmd[15] = expected("game_code")
            /\ calls[i].cmd[16] = expected("maker_code")
            /\ calls[i].cmd[17] = expected("game_title")

\* C6: for an ARM9 dump with machine "ARM" whose entry address is "0x"
\* followed by hexadecimal digits, the entrypoint extracted, and passed to the
\* packer as -e9, is the number those digits denote, leading zeros or not.
C6_Arm9Entrypoint ==
    Arm9Valid =>
        LET digits == HexDigitsOf(arm9_headers[1][S_entry_point_address])
        IN  /\ pc \notin {"machine", "entry9"} => arm9_ep # Unbound
            /\ arm9_ep # Unbound =>
                  /\ arm9_ep[1] = HexValue(digits)
                  /\ arm9_ep[1] = HexValue(WithoutLeadingZeros(digits))
            /\ \A i \in NdstoolCalls :
                  /\ calls[i].cmd[8] = "-e9"
                  /\ DecValue(calls[i].cmd[9]) = HexValue(WithoutLeadingZeros(digits))

\* an entry address written with leading zeros and letters in both cases
\* reached the packer
C6_Witness ==
    /\ Arm9Valid
    /\ arm9_headers[1][S_entry_point_address] = <<"0", "x", "0", "0", "1", "f", "F">>
    /\ NdstoolCalls # {}

\* C7: a tool invocation that exits non-zero is the last one of the run and
\* ends it with the fatal error; ndstool is invoked at most once, and only
\* after the ARM9 inspection, the ARM9 extraction and the ARM7 read (for an
\* ARM7 ELF: its inspection and extraction) have succeeded.
C7_FailureIsFatal ==
    /\ \A i \in 1..(Len(calls) - 1) : calls[i].status = 0
    /\ (calls # <<>> /\ Last(calls).status # 0) =>
          \/ pc \in {"elf_exit", "pack_exit"} /\ exc = "CalledProcessError"
          \/ pc = "exited" /\ error = "CalledProcessError" /\ exit_code = Bound(1)
    /\ Cardinality(NdstoolCalls) <= 1
    /\ \A k \in NdstoolCalls :
          /\ k >= 3
          /\ IsReadelf(calls[1]) /\ TargetOf(calls[1]) = arm9_image[1]
          /\ IsObjcopy(calls[2]) /\ TargetOf(calls[2]) = arm9_image[1]
          /\ arm9_ep # Unbound /\ arm9_data # Unbound
          /\ arm7_ep # Unbound /\ arm7_data # Unbound
          /\ IF arm7_image = Unbound THEN k = 3
             ELSE IF PathSuffix(arm7_image[1]) = S_nds THEN k = 3 /\ raw_data # Unbound
             ELSE /\ k = 5
                  /\ IsReadelf(calls[3]) /\ TargetOf(calls[3]) = arm7_image[1]
                  /\ IsObjcopy(calls[4]) /\ TargetOf(calls[4]) = arm7_image[1]

\* the extractor failed on the ARM9 file and the run ended there
C7_Witness ==
    /\ pc = "exited"
    /\ Len(calls) = 2
    /\ IsObjcopy(calls[2]) /\ calls[2].status # 0

\* C8: with the tool probe passed, a missing ARM9 argument, a missing ARM9
\* file or a missing ARM7 file ends the run with exit code 1 before any
\* external tool is invoked and before the config file is read.
InputsInvalid ==
    \/ Len(argv) < 2
    \/ argv[2] \notin existing
    \/ Len(argv) >= 3 /\ argv[3] \notin existing

C8_ValidationFirst ==
    (TOOL_PREFIX # Unbound /\ InputsInvalid) =>
        /\ calls = <<>>
        /\ packer_settings = Unbound
        /\ pc \in {"args", "check9", "check7", "exited"}
        /\ pc = "exited" => exit_code = Bound(1) /\ error = "SystemExit"

\* the ARM9 file exists, the ARM7 file named does not, and the run has ended
C8_Witness ==
    /\ pc = "exited"
    /\ TOOL_PREFIX # Unbound
    /\ Len(argv) = 3 /\ argv[2] \in existing /\ argv[3] \notin existing

\* C9: with an existing ARM7 ELF, a valid ARM9 ELF and every tool exiting
\* successfully, the run reaches the packer, -e7 being the number the ARM7
\* dump's "0x"-prefixed entry address denotes and the -7 file holding the
\* extractor's output for the ARM7 ELF.
C9_Arm7ElfReachesPacker ==
    (/\ pc = "exited"
     /\ Len(argv) = 3 /\ PathSuffix(argv[3]) # S_nds
     /\ ~InputsInvalid
     /\ cfg_file.kind # "malformed"
     /\ Arm9Valid
     /\ \A i \in 1..Len(calls) : calls[i].status = 0
     /\ Len(calls) >= 3
     /\ parse_elf_headers(calls[3].out).ok
     /\ S_entry_point_address \in DOMAIN parse_elf_headers(calls[3].out).headers
     /\ IsHexLiteral(parse_elf_headers(calls[3].out).headers[S_entry_point_address])) =>
        /\ Len(calls) = 5
        /\ IsNdstool(calls[5])
        /\ calls[5].cmd[12] = "-e7"
        /\ DecValue(calls[5].cmd[13]) =
              HexValue(HexDigitsOf(
                  parse_elf_headers(calls[3].out).headers[S_entry_point_address]))
        /\ arm7_data = Bound(calls[4].out)

\* C10: read_arm7_from_rom returns for every byte sequence, whatever its
\* length, and the blob is raw_rom restricted to the positions
\* [rom_offset, rom_offset + rom_size) that lie below len(raw_rom): at most
\* rom_size bytes, none when rom_offset >= len(raw_rom).
C10_RomReadTotal ==
    raw_data # Unbound =>
        LET raw == raw_data[1]
            off == U32At(raw, 48)
            size == U32At(raw, 60)
            lo == Min(off, Len(raw))
            hi == Min(off + size, Len(raw))
        IN  /\ arm7_ep # Unbound /\ arm7_data # Unbound
            /\ error \in {"", "CalledProcessError"}
            /\ arm7_data[1] = Bytes(raw, lo, hi)
            /\ Len(arm7_data[1]) <= size
            /\ off >= Len(raw) => arm7_data[1] = <<>>

\* a ROM cut short inside its header gave a blob shorter than rom_size
C10_Witness ==
    /\ raw_data # Unbound
    /\ Len(raw_data[1]) < 64
    /\ arm7_data[1] # <<>>
    /\ Len(arm7_data[1]) < U32At(raw_data[1], 60)

====
